---- MODULE Spec2Model ----
(***************************************************************************)
(* Model of the OpenAI Response API file metadata driver                   *)
(* (mayan/apps/file_metadata_openai/drivers.py) and of the message         *)
(* read/unread business logic (mayan/apps/messaging/model_mixins.py).      *)
(*                                                                         *)
(* Python values are records tagged with their type, so that a conversion  *)
(* (int(), yaml_load(), template rendering) is visible in the model.       *)
(* Python dicts whose order does not matter are functions; the ordered     *)
(* result mapping is a sequence of [key, value] records with distinct keys.*)
(***************************************************************************)
EXTENDS Integers, Sequences, FiniteSets, TLC

VARIABLES
    settings,        \* process-wide settings defaults of the driver
    pc,              \* per driver slot: position in the life cycle
    configuration,   \* per slot: the DriverConfiguration argument items
    document_file,   \* per slot: the document file being analysed
    resolved,        \* per slot: outcome of get_argument_values_for_document_file
    arguments,       \* per slot: keyword arguments handed to __init__
    constructed,     \* per slot: outcome of __init__
    self,            \* per slot: the driver instance's fields
    calls,           \* per slot: number of _process invocations
    requests,        \* per slot: number of client.responses.create calls
    elapsed,         \* per slot: time the request in flight has been pending
    returned,        \* per slot: outcome of the last _process invocation
    response,        \* per slot: the dictionary of the response received
    message,         \* per message: the in-memory model instance
    row,             \* per message: the stored database row
    last_call        \* per message: the last mark_* call made

driver_vars == <<settings, pc, configuration, document_file, resolved,
                 arguments, constructed, self, calls, requests, elapsed,
                 returned, response>>
message_vars == <<message, row, last_call>>
vars == <<driver_vars, message_vars>>

---------------------------------------------------------------------------
\* Bounds of the model.

\* _process invocations per driver instance.
MaxCalls == 1
\* Time units a request may stay pending before the client library itself
\* gives up (the library default, far above any configured timeout).
MaxElapsed == 2

Drivers == {"d1", "d2"}

---------------------------------------------------------------------------
\* Python values, exceptions and call outcomes.

PyStr(s) == [type |-> "str", s |-> s, n |-> 0]
PyInt(n) == [type |-> "int", s |-> "", n |-> n]
PyNone == [type |-> "NoneType", s |-> "", n |-> 0]

EmptyDict == <<>>

\* An exception: its class and what it carries (a set of strings).
Exc(type, arg) == [type |-> type, arg |-> arg]
NoException == Exc("", {})

Return(v) == [status |-> "returned", value |-> v, error |-> NoException]
Raise(e) == [status |-> "raised", value |-> EmptyDict, error |-> e]
NotCalled == [status |-> "", value |-> EmptyDict, error |-> NoException]

\* dict.update: the entries of `other` replace those of `d`.
DictUpdate(d, other) == other @@ d

\* d[key] = value
DictSet(d, key, value) ==
    [x \in DOMAIN d \cup {key} |-> IF x = key THEN value ELSE d[x]]

---------------------------------------------------------------------------
\* Literals and class attributes of the driver.

argument_name_list ==
    {"base_url", "input", "model", "organization", "project",
     "stored_credential_id", "timeout"}

DEFAULT_TIMEOUT == 2

RESULT_SEPARATOR == "__"

---------------------------------------------------------------------------
\* Collaborators.

DocumentFiles == {"invoice.pdf", "scan.tiff"}

\* Template(template_string=...).render(context=...): a variable reference
\* renders to the context's value, text renders to itself, a malformed tag
\* raises.
Render(template_string, context) ==
    CASE template_string.s = "{{ document_file }}" ->
            Return(PyStr(context.document_file))
      [] template_string.s = "{% bad" ->
            Raise(Exc("TemplateSyntaxError", {template_string.s}))
      [] OTHER -> Return(template_string)

\* yaml_load(stream=...): a quoted scalar loses its quotes, a plain scalar
\* is itself, the empty document is PyNone, an unclosed flow mapping raises.
yaml_load(stream) ==
    CASE stream.type # "str" -> Raise(Exc("AttributeError", {}))
      [] stream.s = "" -> Return(PyNone)
      [] stream.s = "{unclosed" -> Raise(Exc("YAMLError", {stream.s}))
      [] stream.s = "'Summarize'" -> Return(PyStr("Summarize"))
      [] OTHER -> Return(stream)

Digits == ("1" :> 1) @@ ("2" :> 2) @@ ("3" :> 3)

\* int(timeout)
int(value) ==
    CASE value.type = "int" -> Return(value)
      [] value.type = "NoneType" -> Raise(Exc("TypeError", {"int"}))
      [] value.s \in DOMAIN Digits -> Return(PyInt(Digits[value.s]))
      [] OTHER -> Raise(Exc("ValueError", {value.s}))

\* The StoredCredential rows and what each one's backend returns from
\* get_credential: credential 1 provides a token, credential 2 does not.
StoredCredentials ==
    ("1" :> ("token" :> "sk-A")) @@
    ("2" :> ("username" :> "svc" @@ "password" :> "pw"))

\* The DriverConfiguration argument mappings an administrator may have
\* stored, as items in the mapping's order.
Item(key, value) == [key |-> key, value |-> PyStr(value)]

Configurations ==
    { << Item("input", "'Summarize'"), Item("model", "gpt-5"),
         Item("stored_credential_id", "1"), Item("timeout", "1") >>,
      << Item("input", "{{ document_file }}"), Item("model", "gpt-5"),
         Item("stored_credential_id", "1"),
         Item("organization", "org-1") >>,
      << Item("input", "Summarize"), Item("model", "gpt-5"),
         Item("stored_credential_id", "2"), Item("timeout", "1") >>,
      << Item("input", "Summarize"), Item("stored_credential_id", "1") >>,
      << Item("input", "Summarize"), Item("model", ""),
         Item("stored_credential_id", "1") >>,
      << Item("input", "Summarize"), Item("model", "{% bad"),
         Item("stored_credential_id", "1") >>,
      << Item("input", "Summarize"), Item("model", "gpt-5") >>,
      << Item("input", "Summarize"), Item("model", "gpt-5"),
         Item("stored_credential_id", "") >>,
      << Item("input", "{unclosed"), Item("model", "gpt-5"),
         Item("stored_credential_id", "1") >>,
      << Item("input", "Summarize"), Item("model", "gpt-5"),
         Item("stored_credential_id", "1"), Item("timeout", "soon") >> }

\* The settings-level defaults of the driver: none, a timeout, or defaults
\* whose text happens to look like a template.
SettingsChoices ==
    { EmptyDict,
      ("timeout" :> PyStr("3")),
      ("model" :> PyStr("{{ document_file }}")) @@
          ("organization" :> PyStr("org-0")) }

\* FileMetadataDriver.get_argument_values_from_settings of the base class.
base_get_argument_values_from_settings == settings

---------------------------------------------------------------------------
\* FileMetadataDriverOpenAIResponseAPI: argument resolution.

RECURSIVE render_items_skipping(_, _, _)
\* A loop that drops the key whose template fails and carries on.
render_items_skipping(items, context, argument_values_rendered) ==
    IF items = <<>>
    THEN Return(argument_values_rendered)
    ELSE LET template_result == Render(Head(items).value, context)
         IN  IF template_result.status = "raised"
             THEN render_items_skipping(Tail(items), context,
                                        argument_values_rendered)
             ELSE render_items_skipping(
                      Tail(items), context,
                      DictSet(argument_values_rendered, Head(items).key,
                              template_result.value))

RECURSIVE render_items(_, _, _)
\* The loop of get_argument_values_for_document_file: an exception of
\* render leaves the loop and the function.
render_items(items, context, argument_values_rendered) ==
    IF items = <<>>
    THEN Return(argument_values_rendered)
    ELSE LET template_result == Render(Head(items).value, context)
         IN  IF template_result.status = "raised"
             THEN Raise(template_result.error)
             ELSE render_items(
                      Tail(items), context,
                      DictSet(argument_values_rendered, Head(items).key,
                              template_result.value))

get_argument_values_for_document_file(document_type_arguments, doc) ==
    render_items(document_type_arguments, [document_file |-> doc],
                 EmptyDict)

\* The built-in timeout laid over the settings instead of under them.
get_argument_values_from_settings_default_last ==
    LET result == ("timeout" :> PyInt(DEFAULT_TIMEOUT))
        setting_arguments == base_get_argument_values_from_settings
    IN  IF setting_arguments # EmptyDict
        THEN DictUpdate(setting_arguments, result)
        ELSE result

get_argument_values_from_settings ==
    LET result == ("timeout" :> PyInt(DEFAULT_TIMEOUT))
        setting_arguments == base_get_argument_values_from_settings
    IN  IF setting_arguments # EmptyDict
        THEN DictUpdate(result, setting_arguments)
        ELSE result

\* The caller of the driver class: the rendered values over the defaults.
merge_arguments(defaults, rendered) == DictUpdate(defaults, rendered)

---------------------------------------------------------------------------
\* FileMetadataDriverOpenAIResponseAPI: construction.

\* The fields of a driver instance; all unset before __init__ has run.
Unconstructed ==
    [base_url |-> PyNone, input |-> PyNone, model |-> PyNone,
     organization |-> PyNone, project |-> PyNone,
     stored_credential_id |-> PyNone, timeout |-> PyNone,
     api_key |-> PyNone]

field_names ==
    {"base_url", "input", "model", "organization", "project",
     "stored_credential_id", "timeout", "api_key"}

\* The token resolved and then not kept.
store_api_key_nowhere(instance, api_key) == instance

\* self.api_key = ...
store_api_key(instance, api_key) == [instance EXCEPT !.api_key = api_key]

\* credential.get('token'): a credential without a token yields None.
get_api_key_unchecked(self_) ==
    LET pk == self_.stored_credential_id
    IN  IF pk.type # "str" \/ pk.s \notin DOMAIN StoredCredentials
        THEN Raise(Exc("DoesNotExist", {pk.s}))
        ELSE LET credential == StoredCredentials[pk.s]
             IN  IF "token" \in DOMAIN credential
                 THEN Return(PyStr(credential["token"]))
                 ELSE Return(PyNone)

get_api_key(self_) ==
    LET pk == self_.stored_credential_id
    IN  IF pk.type # "str" \/ pk.s \notin DOMAIN StoredCredentials
        THEN Raise(Exc("DoesNotExist", {pk.s}))
        ELSE LET credential == StoredCredentials[pk.s]
             IN  IF "token" \in DOMAIN credential
                 THEN Return(PyStr(credential["token"]))
                 ELSE Raise(Exc("FileMetadataDriverError",
                                {"The credential provided does not provide a token."}))

\* What a call of the constructor leaves: its outcome, the instance, and
\* how many times it called get_api_key.
Construction(outcome, instance, n) ==
    [status |-> outcome.status, error |-> outcome.error,
     instance |-> instance, get_api_key_calls |-> n]

NotConstructed == Construction(NotCalled, Unconstructed, 0)

required_arguments == {"input", "model", "stored_credential_id"}

__init__(kwargs) ==
    LET missing == required_arguments \ DOMAIN kwargs
        Arg(name) == IF name \in DOMAIN kwargs THEN kwargs[name] ELSE PyNone
    IN  IF missing # {}
        THEN Construction(Raise(Exc("TypeError", missing)), Unconstructed, 0)
        ELSE
        LET input_loaded == yaml_load(kwargs["input"])
            timeout_int == int(Arg("timeout"))
        IN  IF input_loaded.status = "raised"
            THEN Construction(input_loaded, Unconstructed, 0)
            ELSE IF timeout_int.status = "raised"
            THEN Construction(timeout_int, Unconstructed, 0)
            ELSE
            LET assigned ==
                    [base_url |-> Arg("base_url"),
                     input |-> input_loaded.value,
                     model |-> kwargs["model"],
                     organization |-> Arg("organization"),
                     project |-> Arg("project"),
                     stored_credential_id |-> kwargs["stored_credential_id"],
                     timeout |-> timeout_int.value,
                     api_key |-> PyNone]
                api_key == get_api_key(assigned)
            IN  IF api_key.status = "raised"
                THEN Construction(api_key, Unconstructed, 1)
                ELSE Construction(
                         Return(EmptyDict),
                         store_api_key(assigned, api_key.value), 1)

---------------------------------------------------------------------------
\* FileMetadataDriverOpenAIResponseAPI: _process.

NOT_GIVEN == [type |-> "NotGiven", s |-> "", n |-> 0]

\* OpenAI(api_key=..., base_url=..., organization=..., project=...): the
\* client's timeout is the one it is given.
OpenAI(api_key, base_url, organization, project) ==
    [api_key |-> api_key, base_url |-> base_url,
     organization |-> organization, project |-> project,
     timeout |-> NOT_GIVEN]

\* The client of _process.
client_of(self_) ==
    OpenAI(self_.api_key, self_.base_url, self_.organization, self_.project)

\* How long the client waits for a response: its timeout when it was given
\* one, the library's own otherwise.
request_deadline(client) ==
    IF client.timeout.type = "int" THEN client.timeout.n ELSE MaxElapsed

\* Nested response structures: leaves, mappings (items in insertion order)
\* and sequences.
Entry(k, v) == [k |-> k, v |-> v]
Leaf(v) == [tag |-> "leaf", val |-> v, items |-> <<>>]
Map(items) == [tag |-> "map", val |-> 0, items |-> items]
List(nodes) ==
    [tag |-> "list", val |-> 0,
     items |-> [j \in 1..Len(nodes) |-> Entry("", nodes[j])]]

\* No response received.
NoResponse == Map(<<>>)

\* The values response.to_dict() may have.
Responses ==
    { Map(<<>>),
      Map(<< Entry("a", Leaf(1)) >>),
      Map(<< Entry("a", Map(<< Entry("b", Leaf(1)), Entry("c", Leaf(2)) >>)) >>),
      Map(<< Entry("a", List(<< Leaf(10), Leaf(20) >>)) >>),
      Map(<< Entry("a", Map(<<>>)), Entry("b", List(<<>>)),
             Entry("c", Leaf(3)) >>),
      Map(<< Entry("output", List(<< Map(<< Entry("text", Leaf(5)) >>) >>)),
             Entry("id", Leaf(7)) >>),
      Map(<< Entry("a", Map(<< Entry("b", Leaf(1)) >>)),
             Entry("z", Leaf(3)), Entry("a__b", Leaf(2)) >>),
      Map(<< Entry("a", Map(<< Entry("_b", Leaf(1)) >>)),
             Entry("a_", Map(<< Entry("b", Leaf(2)) >>)) >>) }

RECURSIVE flatten_object(_, _, _)
RECURSIVE flatten_children(_, _, _, _)
\* flatten_object(obj=..., separator=...): the (key, value) pairs of the
\* leaves, depth first; prefix is the key of the path walked so far.
flatten_object(obj, prefix, separator) ==
    IF obj.tag = "leaf"
    THEN << [key |-> prefix, value |-> obj.val] >>
    ELSE flatten_children(obj, 1, prefix, separator)

flatten_children(obj, index, prefix, separator) ==
    IF index > Len(obj.items)
    THEN <<>>
    ELSE LET child == IF obj.tag = "map" THEN obj.items[index].k
                      ELSE ToString(index - 1)
             path == IF prefix = "" THEN child
                     ELSE prefix \o separator \o child
         IN  flatten_object(obj.items[index].v, path, separator)
             \o flatten_children(obj, index + 1, prefix, separator)

\* The position of key in the ordered mapping d, 0 when it has none.
KeyIndex(d, key) ==
    IF \E j \in 1..Len(d) : d[j].key = key
    THEN CHOOSE j \in 1..Len(d) : d[j].key = key
    ELSE 0

RECURSIVE dict_update_pairs(_, _)
\* dict(pairs): a key seen again keeps its place and takes the new value.
dict_update_pairs(d, pairs) ==
    IF pairs = <<>>
    THEN d
    ELSE LET pair == Head(pairs)
             at == KeyIndex(d, pair.key)
         IN  dict_update_pairs(
                 IF at = 0 THEN Append(d, pair)
                 ELSE [d EXCEPT ![at].value = pair.value],
                 Tail(pairs))

dict(pairs) == dict_update_pairs(<<>>, pairs)

\* flatten_object called without the separator, which then is its default.
process_result_default_separator(dictionary) ==
    LET generator == flatten_object(dictionary, "", "_")
        result == dict(generator)
    IN  result

\* The tail of _process: the response's dictionary, flattened, as a dict.
process_result(dictionary) ==
    LET generator == flatten_object(dictionary, "", RESULT_SEPARATOR)
        result == dict(generator)
    IN  result

\* What may go wrong in client.responses.create or response.to_dict.
RemoteFailures ==
    {"APIConnectionError", "AuthenticationError", "APITimeoutError",
     "APIResponseValidationError"}

---------------------------------------------------------------------------
\* The driver's actions.

Resolve(i, cfg, doc) ==
    /\ pc[i] = "unconfigured"
    /\ LET outcome == get_argument_values_for_document_file(cfg, doc)
       IN  /\ resolved' = [resolved EXCEPT ![i] = outcome]
           /\ pc' = [pc EXCEPT ![i] =
                        IF outcome.status = "returned" THEN "resolved"
                        ELSE "resolve_failed"]
    /\ configuration' = [configuration EXCEPT ![i] = cfg]
    /\ document_file' = [document_file EXCEPT ![i] = doc]
    /\ UNCHANGED <<settings, arguments, constructed, self, calls, requests,
                   elapsed, returned, response, message_vars>>

Construct(i) ==
    /\ pc[i] = "resolved"
    /\ LET kwargs == merge_arguments(get_argument_values_from_settings,
                                     resolved[i].value)
           outcome == __init__(kwargs)
       IN  /\ arguments' = [arguments EXCEPT ![i] = kwargs]
           /\ constructed' = [constructed EXCEPT ![i] = outcome]
           /\ self' = [self EXCEPT ![i] = outcome.instance]
           /\ pc' = [pc EXCEPT ![i] =
                        IF outcome.status = "returned" THEN "idle"
                        ELSE "construct_failed"]
    /\ UNCHANGED <<settings, configuration, document_file, resolved, calls,
                   requests, elapsed, returned, response, message_vars>>

\* _process up to the call of client.responses.create.
ProcessStart(i) ==
    /\ pc[i] = "idle"
    /\ calls[i] < MaxCalls
    /\ calls' = [calls EXCEPT ![i] = @ + 1]
    /\ requests' = [requests EXCEPT ![i] = @ + 1]
    /\ elapsed' = [elapsed EXCEPT ![i] = 0]
    /\ returned' = [returned EXCEPT ![i] = NotCalled]
    /\ response' = [response EXCEPT ![i] = NoResponse]
    /\ pc' = [pc EXCEPT ![i] = "in_flight"]
    /\ UNCHANGED <<settings, configuration, document_file, resolved,
                   arguments, constructed, self, message_vars>>

\* Time passes while the request is pending.
Tick(i) ==
    /\ pc[i] = "in_flight"
    /\ elapsed[i] < request_deadline(client_of(self[i]))
    /\ elapsed' = [elapsed EXCEPT ![i] = @ + 1]
    /\ UNCHANGED <<settings, pc, configuration, document_file, resolved,
                   arguments, constructed, self, calls, requests, returned,
                   response, message_vars>>

\* A _process that clears the key on the instance once the response is in.
ProcessReturn_clearing_key(i, dictionary) ==
    /\ pc[i] = "in_flight"
    /\ returned' = [returned EXCEPT ![i] = Return(process_result(dictionary))]
    /\ response' = [response EXCEPT ![i] = dictionary]
    /\ self' = [self EXCEPT ![i].api_key = PyNone]
    /\ elapsed' = [elapsed EXCEPT ![i] = 0]
    /\ pc' = [pc EXCEPT ![i] = "idle"]
    /\ UNCHANGED <<settings, configuration, document_file, resolved,
                   arguments, constructed, calls, requests, message_vars>>

\* The response arrives and _process returns the result.
ProcessReturn(i, dictionary) ==
    /\ pc[i] = "in_flight"
    /\ returned' = [returned EXCEPT ![i] = Return(process_result(dictionary))]
    /\ response' = [response EXCEPT ![i] = dictionary]
    /\ elapsed' = [elapsed EXCEPT ![i] = 0]
    /\ pc' = [pc EXCEPT ![i] = "idle"]
    /\ UNCHANGED <<settings, configuration, document_file, resolved,
                   arguments, constructed, self, calls, requests,
                   message_vars>>

\* A _process that sends the request again when it has failed.
ProcessFail_retrying(i, cause) ==
    /\ pc[i] = "in_flight"
    /\ cause = "APITimeoutError"
           => elapsed[i] = request_deadline(client_of(self[i]))
    /\ requests[i] <= MaxCalls
    /\ requests' = [requests EXCEPT ![i] = @ + 1]
    /\ elapsed' = [elapsed EXCEPT ![i] = 0]
    /\ UNCHANGED <<settings, pc, configuration, document_file, resolved,
                   arguments, constructed, self, calls, returned, response,
                   message_vars>>

\* The request fails and the exception leaves _process.
ProcessFail(i, cause) ==
    /\ pc[i] = "in_flight"
    /\ cause = "APITimeoutError"
           => elapsed[i] = request_deadline(client_of(self[i]))
    /\ returned' = [returned EXCEPT ![i] = Raise(Exc(cause, {}))]
    /\ elapsed' = [elapsed EXCEPT ![i] = 0]
    /\ pc' = [pc EXCEPT ![i] = "idle"]
    /\ UNCHANGED <<settings, configuration, document_file, resolved,
                   arguments, constructed, self, calls, requests, response,
                   message_vars>>

---------------------------------------------------------------------------
\* MessageBusinessLogicMixin.

Messages == {"m1", "m2"}
Users == {"alice", "bob"}
Subjects == {"hello", "edited"}
NoUser == ""

\* save() without update_fields: every field of the instance is written.
save_every_field(instance, stored, update_fields) ==
    [f \in DOMAIN stored |-> instance[f]]

\* Model.save(update_fields=...): the named fields of the instance are
\* written to its row.
save(instance, stored, update_fields) ==
    [f \in DOMAIN stored |->
        IF f \in update_fields THEN instance[f] ELSE stored[f]]

mark_read(m, user) ==
    LET instance == [message[m] EXCEPT !._event_actor = user, !.read = TRUE]
    IN  /\ message' = [message EXCEPT ![m] = instance]
        /\ row' = [row EXCEPT ![m] = save(instance, row[m], {"read"})]
        /\ last_call' = [last_call EXCEPT ![m] =
                            [name |-> "mark_read", user |-> user]]
        /\ UNCHANGED driver_vars

mark_unread(m, user) ==
    LET instance == [message[m] EXCEPT !._event_actor = user, !.read = FALSE]
    IN  /\ message' = [message EXCEPT ![m] = instance]
        /\ row' = [row EXCEPT ![m] = save(instance, row[m], {"read"})]
        /\ last_call' = [last_call EXCEPT ![m] =
                            [name |-> "mark_unread", user |-> user]]
        /\ UNCHANGED driver_vars

\* A caller assigns the instance's subject without saving it.
AssignSubject(m, subject) ==
    /\ message[m].subject # subject
    /\ message' = [message EXCEPT ![m].subject = subject]
    /\ UNCHANGED <<row, last_call, driver_vars>>

---------------------------------------------------------------------------
\* Specifications.

InitDrivers ==
    /\ settings \in SettingsChoices
    /\ pc = [i \in Drivers |-> "unconfigured"]
    /\ configuration = [i \in Drivers |-> <<>>]
    /\ document_file = [i \in Drivers |-> ""]
    /\ resolved = [i \in Drivers |-> NotCalled]
    /\ arguments = [i \in Drivers |-> EmptyDict]
    /\ constructed = [i \in Drivers |-> NotConstructed]
    /\ self = [i \in Drivers |-> Unconstructed]
    /\ calls = [i \in Drivers |-> 0]
    /\ requests = [i \in Drivers |-> 0]
    /\ elapsed = [i \in Drivers |-> 0]
    /\ returned = [i \in Drivers |-> NotCalled]
    /\ response = [i \in Drivers |-> NoResponse]

InitMessages ==
    /\ \E was_read \in [Messages -> BOOLEAN] :
          /\ message = [m \in Messages |->
                           [read |-> was_read[m], subject |-> "hello",
                            _event_actor |-> NoUser]]
          /\ row = [m \in Messages |->
                       [read |-> was_read[m], subject |-> "hello"]]
    /\ last_call = [m \in Messages |-> [name |-> "", user |-> NoUser]]

Init ==
    /\ InitDrivers
    /\ message = [m \in Messages |->
                     [read |-> FALSE, subject |-> "hello",
                      _event_actor |-> NoUser]]
    /\ row = [m \in Messages |-> [read |-> FALSE, subject |-> "hello"]]
    /\ last_call = [m \in Messages |-> [name |-> "", user |-> NoUser]]

Next ==
    \E i \in Drivers :
        \/ \E cfg \in Configurations, doc \in DocumentFiles :
               Resolve(i, cfg, doc)
        \/ Construct(i)
        \/ ProcessStart(i)
        \/ Tick(i)
        \/ \E dictionary \in Responses : ProcessReturn(i, dictionary)
        \/ \E cause \in RemoteFailures : ProcessFail(i, cause)

Spec == Init /\ [][Next]_vars

InitMessage ==
    /\ InitMessages
    /\ settings = EmptyDict
    /\ pc = [i \in Drivers |-> "unconfigured"]
    /\ configuration = [i \in Drivers |-> <<>>]
    /\ document_file = [i \in Drivers |-> ""]
    /\ resolved = [i \in Drivers |-> NotCalled]
    /\ arguments = [i \in Drivers |-> EmptyDict]
    /\ constructed = [i \in Drivers |-> NotConstructed]
    /\ self = [i \in Drivers |-> Unconstructed]
    /\ calls = [i \in Drivers |-> 0]
    /\ requests = [i \in Drivers |-> 0]
    /\ elapsed = [i \in Drivers |-> 0]
    /\ returned = [i \in Drivers |-> NotCalled]
    /\ response = [i \in Drivers |-> NoResponse]

NextMessage ==
    \E m \in Messages :
        \/ \E user \in Users : mark_read(m, user)
        \/ \E user \in Users : mark_unread(m, user)
        \/ \E subject \in Subjects : AssignSubject(m, subject)

SpecMessage == InitMessage /\ [][NextMessage]_vars

---------------------------------------------------------------------------
\* Properties.

Constructing(i) == pc[i] \in {"construct_failed", "idle", "in_flight"}

\* The credential backend returned, to the constructor of slot i, a mapping
\* without a token key.
CredentialWithoutToken(i) ==
    /\ constructed[i].get_api_key_calls > 0
    /\ arguments[i]["stored_credential_id"].s \in DOMAIN StoredCredentials
    /\ "token" \notin
           DOMAIN StoredCredentials[arguments[i]["stored_credential_id"].s]

\* C1: when the credential backend returns a mapping without a token key,
\* construction fails with the driver's configuration error
\* (FileMetadataDriverError) and no request is ever sent for that instance.
C1_NoTokenFailsConstruction ==
    \A i \in Drivers :
        CredentialWithoutToken(i) =>
            /\ pc[i] = "construct_failed"
            /\ constructed[i].status = "raised"
            /\ constructed[i].error.type = "FileMetadataDriverError"
            /\ calls[i] = 0
            /\ requests[i] = 0

C1_Witness ==
    \E i \in Drivers :
        /\ CredentialWithoutToken(i)
        /\ pc[i] = "construct_failed"
        /\ arguments[i]["stored_credential_id"] = PyStr("2")

\* C2: a constructor call with the model or the stored credential reference
\* missing or empty fails with an error naming that argument, without
\* calling get_api_key and without any request.
C2_MissingOrEmptyArgumentFails ==
    \A i \in Drivers :
        Constructing(i) =>
            \A name \in {"model", "stored_credential_id"} :
                (\/ name \notin DOMAIN arguments[i]
                 \/ arguments[i][name].s = "") =>
                    /\ constructed[i].status = "raised"
                    /\ name \in constructed[i].error.arg
                    /\ constructed[i].get_api_key_calls = 0
                    /\ requests[i] = 0

\* C3: a request that has not completed within the driver's configured
\* timeout fails with a timeout error; it is never pending beyond it.
C3_ConfiguredTimeoutBoundsRequest ==
    \A i \in Drivers :
        pc[i] = "in_flight" => elapsed[i] <= self[i].timeout.n

\* The token the credential of slot i's instance resolves to.
ResolvedToken(i) ==
    PyStr(StoredCredentials[self[i].stored_credential_id.s]["token"])

ContextOf(i) == [document_file |-> document_file[i]]

\* The positions of slot i's configuration whose template fails to render.
FailingItems(i) ==
    {j \in 1..Len(configuration[i]) :
        Render(configuration[i][j].value, ContextOf(i)).status = "raised"}

\* The mapping is exactly the configuration's keys with rendered values.
RenderedExactly(i) ==
    /\ resolved[i].status = "returned"
    /\ DOMAIN resolved[i].value =
           {configuration[i][j].key : j \in 1..Len(configuration[i])}
    /\ \A j \in 1..Len(configuration[i]) :
           resolved[i].value[configuration[i][j].key] =
               Render(configuration[i][j].value, ContextOf(i)).value

ConfiguredKeys(i) ==
    {configuration[i][j].key : j \in 1..Len(configuration[i])}

\* C7: the value the constructor gets for an argument is the rendered value
\* of the configuration if it has one, otherwise the settings default,
\* literally, if there is one, otherwise, for timeout only, DEFAULT_TIMEOUT;
\* otherwise the argument is not passed.
C7_ArgumentPrecedence ==
    \A i \in Drivers :
        Constructing(i) =>
            \A name \in argument_name_list :
                IF name \in ConfiguredKeys(i)
                THEN /\ name \in DOMAIN arguments[i]
                     /\ arguments[i][name] = resolved[i].value[name]
                     /\ RenderedExactly(i)
                ELSE IF name \in DOMAIN settings
                THEN /\ name \in DOMAIN arguments[i]
                     /\ arguments[i][name] = settings[name]
                ELSE IF name = "timeout"
                THEN /\ name \in DOMAIN arguments[i]
                     /\ arguments[i][name] = PyInt(DEFAULT_TIMEOUT)
                ELSE name \notin DOMAIN arguments[i]

C7_Witness ==
    \E i \in Drivers :
        /\ pc[i] = "idle"
        /\ "model" \notin ConfiguredKeys(i)
        /\ self[i].model = PyStr("{{ document_file }}")
        /\ self[i].organization = PyStr("org-0")
        /\ self[i].timeout = PyInt(DEFAULT_TIMEOUT)
        /\ self[i].input = PyStr("Summarize")

RECURSIVE LeafPaths(_, _)
RECURSIVE ChildLeafPaths(_, _, _)
\* The leaves of a nested structure, depth first, each with its path: the
\* mapping keys and sequence indices that lead to it.
LeafPaths(obj, path) ==
    IF obj.tag = "leaf"
    THEN << [path |-> path, value |-> obj.val] >>
    ELSE ChildLeafPaths(obj, 1, path)

ChildLeafPaths(obj, index, path) ==
    IF index > Len(obj.items)
    THEN <<>>
    ELSE LeafPaths(obj.items[index].v,
                   Append(path, IF obj.tag = "map" THEN obj.items[index].k
                                ELSE ToString(index - 1)))
         \o ChildLeafPaths(obj, index + 1, path)

RECURSIVE JoinPath(_, _)
JoinPath(path, separator) ==
    IF path = <<>> THEN ""
    ELSE IF Len(path) = 1 THEN path[1]
    ELSE path[1] \o separator \o JoinPath(Tail(path), separator)

\* The composite keys of the leaves of slot i's response, in leaf order.
LeafKeys(i) ==
    LET leaves == LeafPaths(response[i], <<>>)
    IN  [j \in 1..Len(leaves) |-> JoinPath(leaves[j].path, RESULT_SEPARATOR)]

\* C8 as stated: the result has one entry per leaf of the response, keyed by
\* the leaf's joined path, valued by the leaf, in depth-first order.
C8_OneEntryPerLeaf ==
    \A i \in Drivers :
        returned[i].status = "returned" =>
            LET leaves == LeafPaths(response[i], <<>>)
                result == returned[i].value
            IN  /\ Len(result) = Len(leaves)
                /\ \A j \in 1..Len(leaves) :
                       /\ result[j].key = LeafKeys(i)[j]
                       /\ result[j].value = leaves[j].value

\* C8 as amended: the result has one entry per distinct composite key of the
\* response's leaves (the leaf's path joined by the result separator); the
\* entries are in the order in which their keys first occur depth first,
\* each valued by the last leaf that has its key; leaves whose composite
\* keys coincide share one entry, and empty containers contribute none.
C8_OneEntryPerCompositeKey ==
    \A i \in Drivers :
        returned[i].status = "returned" =>
            LET leaves == LeafPaths(response[i], <<>>)
                keys == LeafKeys(i)
                result == returned[i].value
                First(key) == CHOOSE j \in 1..Len(keys) :
                                  /\ keys[j] = key
                                  /\ \A h \in 1..(j - 1) : keys[h] # key
                Last(key) == CHOOSE j \in 1..Len(keys) :
                                 /\ keys[j] = key
                                 /\ \A h \in (j + 1)..Len(keys) : keys[h] # key
            IN  /\ \A a, b \in 1..Len(result) :
                       a # b => result[a].key # result[b].key
                /\ {result[a].key : a \in 1..Len(result)} =
                       {keys[j] : j \in 1..Len(keys)}
                /\ \A a \in 1..Len(result) :
                       result[a].value = leaves[Last(result[a].key)].value
                /\ \A a, b \in 1..Len(result) :
                       a < b => First(result[a].key) < First(result[b].key)

C8_Witness ==
    \E i, k \in Drivers :
        /\ returned[i].status = "returned"
        /\ returned[i].value =
               << [key |-> "a__b", value |-> 2], [key |-> "z", value |-> 3] >>
        /\ returned[k].status = "returned"
        /\ returned[k].value =
               << [key |-> "a__0", value |-> 10],
                  [key |-> "a__1", value |-> 20] >>

\* Slot i takes a step of a _process call.
ProcessStep(i) ==
    \/ pc[i] = "idle" /\ pc'[i] = "in_flight"
    \/ pc[i] = "in_flight" /\ <<pc[i], elapsed[i]>>' # <<pc[i], elapsed[i]>>

\* C9: a process call, returning or failing, leaves every field of its
\* driver instance unchanged and touches nothing of any other instance, so
\* calls interleaved on distinct instances do what they do one by one.
C9_ProcessLeavesFieldsUnchanged ==
    [][\A i \in Drivers :
          ProcessStep(i) =>
              /\ self'[i] = self[i]
              /\ \A k \in Drivers \ {i} :
                     <<pc[k], self[k], calls[k], requests[k], elapsed[k],
                       returned[k], response[k]>>' =
                     <<pc[k], self[k], calls[k], requests[k], elapsed[k],
                       returned[k], response[k]>>]_vars

C9_Witness ==
    \E i, k \in Drivers :
        /\ i # k
        /\ pc[i] = "in_flight"
        /\ elapsed[i] > 0
        /\ returned[k].status = "returned"
        /\ pc[k] = "idle"
        /\ self[i] # self[k]

\* C10: after any sequence of mark_read and mark_unread calls the stored
\* read flag is true exactly when the last call was mark_read, the event
\* actor is that call's user, and no step writes any other stored field.
C10_LastMarkWins ==
    /\ [](\A m \in Messages :
             last_call[m].name # "" =>
                 /\ row[m].read = (last_call[m].name = "mark_read")
                 /\ message[m].read = row[m].read
                 /\ message[m]._event_actor = last_call[m].user)
    /\ [][\A m \in Messages : row'[m].subject = row[m].subject]_vars

C10_Witness ==
    \E m \in Messages :
        /\ last_call[m] = [name |-> "mark_unread", user |-> "bob"]
        /\ message[m].subject # row[m].subject
        /\ row[m].read = FALSE

====
